---- MODULE Spec2Model ----
(***************************************************************************)
(* A model of script.js (AquaFix landing page): the contact form's field   *)
(* validator and form controller, the scroll-reveal controllers and the    *)
(* page initialisation sequence.                                           *)
(*                                                                         *)
(* Text values are sequences of one-character strings, so that trimming,   *)
(* length and the phone pattern are computed and not assumed.              *)
(***************************************************************************)
EXTENDS Integers, Sequences, FiniteSets, TLC

VARIABLES
    vfield,     \* validator harness: the field object handed to validateField
    verror,     \* validator harness: what validateField returned for it
    page,       \* the contact form's markup and listeners: which elements
                \* exist, and how many patchFormSubmitButton listeners were
                \* registered before and after initContactForm's
    value,      \* field id -> field.value
    isInvalid,  \* field id -> field.classList.contains('is-invalid')
    ariaInvalid,\* field id -> the aria-invalid attribute ("unset" if absent)
    errorText,  \* field id -> textContent of #<id>Error
    focused,    \* document.activeElement: a field id, "formSubmit" or "body"
    submitBtn,  \* #formSubmit: disabled, caption, style.opacity, btn--submitting
    successHidden, \* #formSuccess.hidden
    timers,     \* pending setTimeout callbacks, in registration order
    uncaught,   \* uncaught errors, by source line
    submitsLeft,\* submit events still to come (bounds the model)
    env,        \* the browser: IntersectionObserver and clipboard available,
                \* reduced motion preferred, viewport at least 800px wide,
                \* and how the script was loaded
    present,    \* the kinds of element the page's markup contains
    pc,         \* where the script is: running the script-end calls, waiting
                \* for DOMContentLoaded, running the ready handler, or idle
    ran,        \* the init routines of the ready handler that have returned
    initThrew,  \* source lines of errors thrown during initialisation
    observed,   \* IntersectionObserver -> the elements it observes
    classes,    \* element -> its marker classes
    style,      \* element -> its inline opacity and transform
    submitListeners, \* the form's submit listeners, in registration order
    revealedBy, \* the (observer, element) pairs whose reveal callback ran
    calloutThrew, \* source lines of errors thrown by observer callbacks
    stat,       \* a .stat__num element and the animation that counts it up
    touch,      \* a tel: link: its pressTimer, the pending long-press timers,
                \* the last touch event and the clipboard writes
    scroll,     \* the scroll and resize handlers: the window's scroll
                \* position, each handler's ticking flag and queued frame
                \* callbacks, what they last rendered, and the DOM updates
                \* done since the last frame began
    menu,       \* the burger menu: the is-open class of #navMenu, the
                \* burger's aria-expanded, the body's overflow, and the last
                \* event the menu's listeners handled
    toast,      \* the toasts: how many were shown, which are attached, which
                \* carry aq-toast--out, which listen for animationend, and
                \* the pending auto-hide timers
    hero        \* the hero's bubbles: their offsets, their transition, and
                \* the pending clear timers

validatorVars == <<vfield, verror>>
formVars == <<page, value, isInvalid, ariaInvalid, errorText, focused,
              submitBtn, successHidden, timers, uncaught, submitsLeft>>
pageVars == <<env, present, pc, ran, initThrew, observed, classes, style,
              submitListeners, revealedBy, calloutThrew>>
widgetVars == <<stat, touch, scroll>>
pointerVars == <<menu, toast, hero>>
\* Everything but the form, but the validator harness, but the page, but
\* the widgets, but the pointer-driven parts.
notFormVars == <<validatorVars, pageVars, widgetVars, pointerVars>>
notValidatorVars == <<formVars, pageVars, widgetVars, pointerVars>>
notPageVars == <<validatorVars, formVars, widgetVars, pointerVars>>
notWidgetVars == <<validatorVars, formVars, pageVars, pointerVars>>
notPointerVars == <<validatorVars, formVars, pageVars, widgetVars>>
vars == <<validatorVars, formVars, pageVars, widgetVars, pointerVars>>

(***************************************************************************)
(* Characters                                                              *)
(***************************************************************************)
WhiteSpace == {" ", "\t", "\n"}
Digits == {"0", "1", "2", "3", "4", "5", "6", "7", "8", "9"}

RECURSIVE trimStart(_)
trimStart(s) ==
    IF s # <<>> /\ Head(s) \in WhiteSpace THEN trimStart(Tail(s)) ELSE s

RECURSIVE trimEnd(_)
trimEnd(s) ==
    IF s # <<>> /\ s[Len(s)] \in WhiteSpace
    THEN trimEnd(SubSeq(s, 1, Len(s) - 1))
    ELSE s

\* String.prototype.trim as used at script.js:295, left as the identity:
\* the bug of validating the raw value.
trimMissing(s) == s

\* String.prototype.trim (script.js:295)
trim(s) == trimEnd(trimStart(s))

(***************************************************************************)
(* The rule table (script.js:259-284)                                      *)
(***************************************************************************)
\* /^[+]?[\d\s\-().]{7,20}$/ : an optional prefix character, then between
\* min and max characters of the class, anchored at both ends.
phonePattern ==
    [optional |-> {"+"},
     class    |-> Digits \cup WhiteSpace \cup {"-", "(", ")", "."},
     min      |-> 7,
     max      |-> 20]

\* RegExp.prototype.test for patterns of the shape above, with the pattern
\* quantifier counting the optional prefix too (a plausible misreading).
testTotalLength(pattern, s) ==
    /\ Len(s) \in pattern.min .. pattern.max
    /\ \E k \in {0, 1} :
        /\ k <= Len(s)
        /\ k = 1 => s[1] \in pattern.optional
        /\ \A i \in (k + 1) .. Len(s) : s[i] \in pattern.class

\* RegExp.prototype.test for patterns of the shape above (script.js:270, 303)
test(pattern, s) ==
    \E k \in {0, 1} :
        /\ k <= Len(s)
        /\ k = 1 => s[1] \in pattern.optional
        /\ (Len(s) - k) \in pattern.min .. pattern.max
        /\ \A i \in (k + 1) .. Len(s) : s[i] \in pattern.class

\* The rule table with the pattern message of formPhone left out.
rulesMissingMessage ==
    [formName |->
        [required  |-> TRUE,
         minLength |-> 2,
         messages  |-> [required  |-> "Ime i prezime su obavezni.",
                        minLength |-> "Unesite puno ime (minimum 2 karaktera)."]],
     formPhone |->
        [required  |-> TRUE,
         pattern   |-> phonePattern,
         messages  |-> [required |-> "Broj telefona je obavezan."]],
     formMessage |->
        [required  |-> TRUE,
         minLength |-> 10,
         messages  |-> [required  |-> "Opis problema je obavezan.",
                        minLength |-> "Opisite problem detaljnije (min. 10 karaktera)."]]]

rules ==
    [formName |->
        [required  |-> TRUE,
         minLength |-> 2,
         messages  |-> [required  |-> "Ime i prezime su obavezni.",
                        minLength |-> "Unesite puno ime (minimum 2 karaktera)."]],
     formPhone |->
        [required  |-> TRUE,
         pattern   |-> phonePattern,
         messages  |-> [required |-> "Broj telefona je obavezan.",
                        pattern  |-> "Unesite ispravan broj telefona."]],
     formMessage |->
        [required  |-> TRUE,
         minLength |-> 10,
         messages  |-> [required  |-> "Opis problema je obavezan.",
                        minLength |-> "Opisite problem detaljnije (min. 10 karaktera)."]]]

\* Object.keys(rules): the declaration order (script.js:329, 353, 398)
ruleKeys == <<"formName", "formPhone", "formMessage">>

FieldIds == {ruleKeys[i] : i \in 1 .. Len(ruleKeys)}

\* What reading an absent property gives.
undefined == "undefined"

\* rule.messages.<kind> (script.js:298, 301, 304)
message(rule, kind) ==
    IF kind \in DOMAIN rule.messages THEN rule.messages[kind] ELSE undefined

\* A rule property is truthy: present, and not false or zero.
has(rule, key) == key \in DOMAIN rule

\* rules is an object literal, so rules[field.id] (script.js:292) also finds
\* the members every object inherits; they carry no required, minLength or
\* pattern property.
inheritedKeys == {"constructor", "toString"}

lookup(id) == IF id \in DOMAIN rules THEN rules[id] ELSE [inherited |-> id]

\* if (!rule) return '' (script.js:293)
truthy(id) == id \in DOMAIN rules \cup inheritedKeys

\* validateField with the minimum length measured on the raw value.
validateFieldRawLength(field) ==
    IF ~truthy(field.id) THEN ""
    ELSE LET rule == lookup(field.id)
             val  == trim(field.value)
         IN  IF has(rule, "required") /\ rule.required /\ val = <<>>
                 THEN message(rule, "required")
             ELSE IF val # <<>> /\ has(rule, "minLength")
                        /\ Len(field.value) < rule.minLength
                 THEN message(rule, "minLength")
             ELSE IF val # <<>> /\ has(rule, "pattern")
                        /\ ~test(rule.pattern, val)
                 THEN message(rule, "pattern")
             ELSE ""

\* validateField (script.js:291-307)
validateField(field) ==
    IF ~truthy(field.id) THEN ""
    ELSE LET rule == lookup(field.id)
             val  == trim(field.value)
         IN  IF has(rule, "required") /\ rule.required /\ val = <<>>
                 THEN message(rule, "required")
             ELSE IF val # <<>> /\ has(rule, "minLength")
                        /\ rule.minLength # 0
                        /\ Len(val) < rule.minLength
                 THEN message(rule, "minLength")
             ELSE IF val # <<>> /\ has(rule, "pattern")
                        /\ ~test(rule.pattern, val)
                 THEN message(rule, "pattern")
             ELSE ""

\* The validator harness at rest (in the specifications that do not use it).
ValidatorIdle ==
    /\ vfield = [id |-> "formName", value |-> <<>>]
    /\ verror = "pending"

(***************************************************************************)
(* The contact form (script.js:251-404, 945-956)                           *)
(***************************************************************************)
\* setTimeout delays, in milliseconds
SubmitDelay == 900
SuccessHideDelay == 6000
SpinnerOnDelay == 0
SpinnerOffDelay == 900

\* The model's clock advances in steps of TickMs milliseconds.
TickMs == 300
Ticks(ms) == (ms + TickMs - 1) \div TickMs

\* The submit button's captions: the markup's (restored by the innerHTML
\* assignment at script.js:380-386) and the one shown while sending.
DefaultCaption == "Posalji upit"
SendingCaption == "Saljem..."

\* The page with every element of the form present.
FullForm ==
    [formSubmit |-> TRUE, formSuccess |-> TRUE,
     fields |-> FieldIds, errorEls |-> FieldIds]

\* How the script was loaded decides the order of the submit listeners:
\* patchFormSubmitButton runs at the end of the ready handler and again at
\* the end of the script (script.js:1005, 1018).
\*   deferred: the ready handler runs at once, the script-end call after it;
\*   body:     the script-end call runs first, the ready handler later;
\*   head:     the script-end call finds no form yet.
LoadModes == {"deferred", "body", "head"}

patchBefore(mode) == IF mode = "body" THEN 1 ELSE 0
patchAfter(mode) == IF mode = "deferred" THEN 2 ELSE 1

Listeners(markup, mode) ==
    IF markup.formSubmit
    THEN [patchBefore |-> patchBefore(mode), patchAfter |-> patchAfter(mode)]
    ELSE [patchBefore |-> 0, patchAfter |-> 0]

\* The values typed into each field.
FormValues ==
    [formName    |-> { <<>>, <<" ", "a">>, <<"A", "n", "a">> },
     formPhone   |-> { <<>>, <<"0", "6", "4", "1", "2", "3", "4">> },
     formMessage |-> { <<>>, <<"c", "u", "r", "i", " ", "s", "l", "a", "v", "i", "n", "a">> }]

\* The state of the form once initContactForm and patchFormSubmitButton
\* have run on a page with the given markup.
FormReady(markup, mode, budget) ==
    /\ page = [markup |-> markup, listeners |-> Listeners(markup, mode)]
    /\ value = [f \in FieldIds |-> <<>>]
    /\ isInvalid = [f \in FieldIds |-> FALSE]
    /\ ariaInvalid = [f \in FieldIds |-> "unset"]
    /\ errorText = [f \in FieldIds |-> ""]
    /\ focused = "body"
    /\ submitBtn = [disabled |-> FALSE, caption |-> DefaultCaption,
                    opacity |-> "", submitting |-> FALSE]
    /\ successHidden = TRUE
    /\ timers = <<>>
    /\ uncaught = {}
    /\ submitsLeft = budget

\* The form at rest (in the specifications that do not use it).
FormIdle == FormReady(FullForm, "head", 0)

\* The widgets at rest (in the specifications that do not use them).
StatIdle ==
    stat = [phase |-> "idle", target |-> [nan |-> FALSE, n |-> 0],
            markup |-> <<>>, suffix |-> <<>>, text |-> <<"0">>, observed |-> FALSE, running |-> FALSE,
            elapsed |-> 0, frames |-> 0]

TouchIdle ==
    touch = [pressTimer |-> 0, pending |-> <<>>, last |-> "none", starts |-> 0,
             copied |-> 0]

\* The window's scroll listeners, in the order they are registered
\* (script.js:100, 444, 721), and its resize listener (script.js:705).
ScrollHandlers == <<"header", "navLink", "progress">>
AllHandlers == {ScrollHandlers[i] : i \in 1 .. Len(ScrollHandlers)} \cup {"resize"}

ScrollIdle ==
    scroll = [handlers |-> {}, scrollY |-> 0, ticking |-> {}, queued |-> <<>>,
              scrolled |-> FALSE, active |-> 0, width |-> 0,
              updates |-> [h \in AllHandlers |-> 0]]

MenuIdle ==
    menu = [isOpen |-> FALSE, ariaExpanded |-> "false", overflow |-> "",
            last |-> "none"]

ToastIdle ==
    toast = [shown |-> 0, attached |-> {}, out |-> {}, listening |-> {},
             timers |-> <<>>]

HeroIdle ==
    hero = [cx |-> 0, cy |-> 0, moved |-> FALSE, transition |-> FALSE,
            timers |-> <<>>, leaves |-> 0]

WidgetsIdle ==
    StatIdle /\ TouchIdle /\ ScrollIdle /\ MenuIdle /\ ToastIdle /\ HeroIdle

\* The DOM state of the fields, as one value the handlers transform.
Dom == [isInvalid |-> isInvalid, ariaInvalid |-> ariaInvalid, errorText |-> errorText]

\* setFieldError that leaves the error text when the message is empty.
setFieldErrorStaleText(dom, id, msg) ==
    [isInvalid   |-> [dom.isInvalid EXCEPT ![id] = (msg # "")],
     ariaInvalid |-> [dom.ariaInvalid EXCEPT ![id] = IF msg # "" THEN "true" ELSE "false"],
     errorText   |-> IF id \in page.markup.errorEls /\ msg # ""
                     THEN [dom.errorText EXCEPT ![id] = msg]
                     ELSE dom.errorText]

\* setFieldError that forgets to clear the is-invalid class.
setFieldErrorKeepsClass(dom, id, msg) ==
    [isInvalid   |-> [dom.isInvalid EXCEPT ![id] = (msg # "") \/ @],
     ariaInvalid |-> [dom.ariaInvalid EXCEPT ![id] = IF msg # "" THEN "true" ELSE "false"],
     errorText   |-> IF id \in page.markup.errorEls
                     THEN [dom.errorText EXCEPT ![id] = msg]
                     ELSE dom.errorText]

\* setFieldError (script.js:314-326)
setFieldError(dom, id, msg) ==
    [isInvalid   |-> [dom.isInvalid EXCEPT ![id] = (msg # "")],
     ariaInvalid |-> [dom.ariaInvalid EXCEPT ![id] = IF msg # "" THEN "true" ELSE "false"],
     errorText   |-> IF id \in page.markup.errorEls
                     THEN [dom.errorText EXCEPT ![id] = msg]
                     ELSE dom.errorText]

Field(id) == [id |-> id, value |-> value[id]]

\* The blur listener (script.js:333-336)
onBlur(dom, id) == setFieldError(dom, id, validateField(Field(id)))

\* The forEach loops over Object.keys(rules) (script.js:353-364, 398-401),
\* for the keys from position i on; absent fields are skipped.
RECURSIVE renderFrom(_, _, _)
renderFrom(dom, i, clear) ==
    IF i > Len(ruleKeys) THEN dom
    ELSE LET id == ruleKeys[i]
         IN  IF id \notin page.markup.fields
             THEN renderFrom(dom, i + 1, clear)
             ELSE renderFrom(
                     setFieldError(dom, id,
                         IF clear THEN "" ELSE validateField(Field(id))),
                     i + 1, clear)

\* The present fields that fail validation, in declaration order.
invalidKeys ==
    SelectSeq(ruleKeys,
        LAMBDA id : id \in page.markup.fields /\ validateField(Field(id)) # "")

\* firstInvalidField taken as the last invalid field found.
firstInvalidFieldLast == invalidKeys[Len(invalidKeys)]

\* firstInvalidField (script.js:351, 362)
firstInvalidField == invalidKeys[1]

SetDom(dom) ==
    /\ isInvalid' = dom.isInvalid
    /\ ariaInvalid' = dom.ariaInvalid
    /\ errorText' = dom.errorText

\* setTimeout(fn, ms): the callback joins the pending timers.
timer(fn, ms) == [fn |-> fn, left |-> Ticks(ms), age |-> 0]

\* The submit listener of patchFormSubmitButton (script.js:951-955),
\* registered n times.
RECURSIVE patchTimers(_)
patchTimers(n) ==
    IF n = 0 THEN <<>>
    ELSE <<timer("addSubmitting", SpinnerOnDelay),
           timer("removeSubmitting", SpinnerOffDelay)>> \o patchTimers(n - 1)

\* The input listener that never re-validates.
InputStale(id, v) ==
    /\ id \in page.markup.fields
    /\ v # value[id]
    /\ value' = [value EXCEPT ![id] = v]
    /\ UNCHANGED <<isInvalid, ariaInvalid, errorText>>
    /\ UNCHANGED <<page, focused, submitBtn, successHidden, timers, uncaught,
                   submitsLeft>>
    /\ UNCHANGED notFormVars

\* The input listener re-validating on every edit, marked or not.
InputAlways(id, v) ==
    /\ id \in page.markup.fields
    /\ v # value[id]
    /\ value' = [value EXCEPT ![id] = v]
    /\ SetDom(setFieldError(Dom, id, validateField([id |-> id, value |-> v])))
    /\ UNCHANGED <<page, focused, submitBtn, successHidden, timers, uncaught,
                   submitsLeft>>
    /\ UNCHANGED notFormVars

\* The input listener (script.js:338-343) on a new value v of field id.
Input(id, v) ==
    /\ id \in page.markup.fields
    /\ v # value[id]
    /\ value' = [value EXCEPT ![id] = v]
    /\ IF isInvalid[id]
       THEN SetDom(setFieldError(Dom, id, validateField([id |-> id, value |-> v])))
       ELSE UNCHANGED <<isInvalid, ariaInvalid, errorText>>
    /\ UNCHANGED <<page, focused, submitBtn, successHidden, timers, uncaught,
                   submitsLeft>>
    /\ UNCHANGED notFormVars

\* What can take the focus.
Focusable ==
    page.markup.fields \cup {"body"}
        \cup (IF page.markup.formSubmit /\ ~submitBtn.disabled
              THEN {"formSubmit"} ELSE {})

\* The focus moves to another element: the field that loses it gets a blur
\* event (script.js:333-336).
MoveFocus(to) ==
    /\ to \in Focusable
    /\ to # focused
    /\ focused' = to
    /\ IF focused \in FieldIds
       THEN SetDom(onBlur(Dom, focused))
       ELSE UNCHANGED <<isInvalid, ariaInvalid, errorText>>
    /\ UNCHANGED <<page, value, submitBtn, successHidden, timers, uncaught,
                   submitsLeft>>
    /\ UNCHANGED notFormVars

\* A submit event whose validation fails (script.js:347-369, 951-955).
SubmitInvalid ==
    /\ submitsLeft > 0
    /\ invalidKeys # <<>>
    /\ submitsLeft' = submitsLeft - 1
    /\ LET rendered == renderFrom(Dom, 1, FALSE)
           first    == firstInvalidField
       IN  /\ focused' = first
           \* focus() takes the focus from another field, whose blur
           \* listener renders it once more
           /\ IF focused \in FieldIds /\ focused # first
              THEN SetDom(setFieldError(rendered, focused, validateField(Field(focused))))
              ELSE SetDom(rendered)
    /\ timers' = timers \o patchTimers(page.listeners.patchBefore)
                        \o patchTimers(page.listeners.patchAfter)
    /\ UNCHANGED <<page, value, submitBtn, successHidden, uncaught>>
    /\ UNCHANGED notFormVars

\* A submit event whose validation passes (script.js:347-403, 951-955).
SubmitValid ==
    /\ submitsLeft > 0
    /\ invalidKeys = <<>>
    /\ submitsLeft' = submitsLeft - 1
    /\ SetDom(renderFrom(Dom, 1, FALSE))
    /\ IF page.markup.formSubmit
       THEN /\ submitBtn' = [submitBtn EXCEPT !.disabled = TRUE,
                                              !.caption = SendingCaption,
                                              !.opacity = "0.7"]
            /\ timers' = timers \o patchTimers(page.listeners.patchBefore)
                                \o <<timer("complete", SubmitDelay)>>
                                \o patchTimers(page.listeners.patchAfter)
            /\ UNCHANGED uncaught
       ELSE \* submitBtn is null: TypeError at script.js:372
            /\ uncaught' = uncaught \cup {372}
            /\ UNCHANGED <<submitBtn, timers>>
    /\ UNCHANGED <<page, value, focused, successHidden>>
    /\ UNCHANGED notFormVars

\* The timers that are due, and the one the event loop runs next: the
\* earliest registered.
due == {i \in 1 .. Len(timers) : timers[i].left = 0}
nextDue == CHOOSE i \in due : \A j \in due : i <= j
without(i) == SubSeq(timers, 1, i - 1) \o SubSeq(timers, i + 1, Len(timers))

\* Time passes: TickMs milliseconds, when no timer is due.
Tick ==
    /\ timers # <<>>
    /\ due = {}
    /\ timers' = [i \in 1 .. Len(timers) |->
                    [timers[i] EXCEPT !.left = @ - 1, !.age = @ + 1]]
    /\ UNCHANGED <<page, value, isInvalid, ariaInvalid, errorText, focused,
                   submitBtn, successHidden, uncaught, submitsLeft>>
    /\ UNCHANGED notFormVars

\* The submission's timeout callback (script.js:377-402).
Complete ==
    /\ due # {}
    /\ timers[nextDue].fn = "complete"
    /\ value' = [f \in FieldIds |-> <<>>]
    /\ submitBtn' = [submitBtn EXCEPT !.disabled = FALSE,
                                      !.caption = DefaultCaption,
                                      !.opacity = ""]
    /\ IF page.markup.formSuccess
       THEN /\ successHidden' = FALSE
            /\ timers' = without(nextDue) \o <<timer("hideSuccess", SuccessHideDelay)>>
       ELSE /\ timers' = without(nextDue)
            /\ UNCHANGED successHidden
    /\ SetDom(renderFrom(Dom, 1, TRUE))
    /\ UNCHANGED <<page, focused, uncaught, submitsLeft>>
    /\ UNCHANGED notFormVars

\* setTimeout(() => { successMsg.hidden = true; }, 6000) (script.js:394)
HideSuccess ==
    /\ due # {}
    /\ timers[nextDue].fn = "hideSuccess"
    /\ successHidden' = TRUE
    /\ timers' = without(nextDue)
    /\ UNCHANGED <<page, value, isInvalid, ariaInvalid, errorText, focused,
                   submitBtn, uncaught, submitsLeft>>
    /\ UNCHANGED notFormVars

\* setTimeout(() => submitBtn.classList.add('btn--submitting'), 0) (script.js:953)
AddSubmitting ==
    /\ due # {}
    /\ timers[nextDue].fn = "addSubmitting"
    /\ submitBtn' = [submitBtn EXCEPT !.submitting = TRUE]
    /\ timers' = without(nextDue)
    /\ UNCHANGED <<page, value, isInvalid, ariaInvalid, errorText, focused,
                   successHidden, uncaught, submitsLeft>>
    /\ UNCHANGED notFormVars

\* setTimeout(() => submitBtn.classList.remove('btn--submitting'), 900) (script.js:954)
RemoveSubmitting ==
    /\ due # {}
    /\ timers[nextDue].fn = "removeSubmitting"
    /\ submitBtn' = [submitBtn EXCEPT !.submitting = FALSE]
    /\ timers' = without(nextDue)
    /\ UNCHANGED <<page, value, isInvalid, ariaInvalid, errorText, focused,
                   successHidden, uncaught, submitsLeft>>
    /\ UNCHANGED notFormVars


(***************************************************************************)
(* The page: initialisation and the reveal controllers                     *)
(* (script.js:30-33, 160-188, 521-607, 819-931, 958-1018)                  *)
(***************************************************************************)
\* The kinds of element the init routines look up, one element of each.
RevealKinds ==
    {"fadeUp", "whyCard", "processStep", "serviceCard", "testimonialCard",
     "sectionHeader", "connector", "areaList"}
Kinds ==
    RevealKinds \cup
    {"navBurger", "navMenu", "stickyCta", "hero", "contactForm", "formSubmit"}

\* The observers a controller creates: one per call of its init routine,
\* from the ready handler or from the end of the script.
Controllers ==
    {"initScrollAnimations", "initProcessReveal", "initServiceCardReveal",
     "initTestimonialReveal", "initSectionHeaderReveal", "initTestimonialSlide",
     "initConnectorDraw", "initAreaListReveal"}
Observers == [ctl : Controllers, call : {"ready", "end"}]

\* The elements each controller selects (script.js:162-167, 525, 555, 584,
\* 822, 875, 897, 918).
selects ==
    [initScrollAnimations    |-> {"fadeUp", "whyCard"},
     initProcessReveal       |-> {"processStep"},
     initServiceCardReveal   |-> {"serviceCard"},
     initTestimonialReveal   |-> {"testimonialCard"},
     initSectionHeaderReveal |-> {"sectionHeader"},
     initTestimonialSlide    |-> {"testimonialCard"},
     initConnectorDraw       |-> {"connector"},
     initAreaListReveal      |-> {"areaList"}]

\* The transform each style-based controller hides its elements with
\* (script.js:531, 560, 589).
hiddenTransform ==
    [initProcessReveal     |-> "translateY(24px)",
     initServiceCardReveal |-> "translateY(20px)",
     initTestimonialReveal |-> "translateY(18px)"]

\* The calls of the ready handler (script.js:959-1006) ...
readyHead ==
    <<"ensureFontLoad", "initViewportHeightFix", "injectActiveLinkStyle",
      "initBurgerMenu", "initHeaderScroll", "initStickyCta", "initSmoothScroll",
      "initActiveNavLink", "initLogoScrollTop", "initScrollProgress">>
readyMotion ==
    <<"initScrollAnimations", "initProcessReveal", "initServiceCardReveal",
      "initTestimonialReveal", "initButtonRipple", "initHeroParallax",
      "initCardTilt", "initWhyCardHover", "initHeroTitleReveal",
      "initSectionHeaderReveal", "initTestimonialSlide", "initConnectorDraw",
      "initAreaListReveal">>
readyTail ==
    <<"patchStatSuffixes", "initCounters", "initContactForm", "initPhoneCopy",
      "initServiceCardOverlay", "patchFormSubmitButton">>
readyCalls ==
    readyHead
        \o (IF env.reducedMotion THEN <<"showAllAnimated">> ELSE readyMotion)
        \o readyTail

\* ... and the calls at the end of the script (script.js:1008-1018).
endCalls ==
    (IF env.reducedMotion THEN <<>>
     ELSE <<"initHeroTitleReveal", "initSectionHeaderReveal",
            "initTestimonialSlide", "initConnectorDraw", "initAreaListReveal">>)
        \o <<"initServiceCardOverlay", "patchFormSubmitButton">>

\* The routines modelled by their return alone: with the elements and
\* capabilities of the model they only register listeners or inject styles.
plainRoutines ==
    {"ensureFontLoad", "initViewportHeightFix", "injectActiveLinkStyle",
     "initHeaderScroll", "initSmoothScroll", "initActiveNavLink",
     "initLogoScrollTop", "initScrollProgress", "initButtonRipple",
     "initHeroParallax", "initCardTilt", "initWhyCardHover",
     "initHeroTitleReveal", "patchStatSuffixes", "initCounters",
     "initPhoneCopy", "initServiceCardOverlay"}

calls == IF pc.phase = "ready" THEN readyCalls ELSE endCalls

\* The routine about to run, if any.
current ==
    IF pc.phase \in {"ready", "end"} THEN calls[pc.i] ELSE "none"

\* Where control goes when the running sequence of calls is over: onReady
\* (script.js:30-33) ran the handler at once when the document was no longer
\* loading, and registered it for DOMContentLoaded otherwise.
afterLast ==
    IF pc.phase = "ready"
    THEN IF env.mode = "deferred" THEN [phase |-> "end", i |-> 1]
         ELSE [phase |-> "idle", i |-> 0]
    ELSE IF env.mode = "deferred" THEN [phase |-> "idle", i |-> 0]
         ELSE [phase |-> "loading", i |-> 0]

\* The routine returns normally.
return ==
    /\ pc' = IF pc.i < Len(calls) THEN [pc EXCEPT !.i = @ + 1] ELSE afterLast
    /\ ran' = IF pc.phase = "ready" THEN ran \cup {current} ELSE ran
    /\ UNCHANGED initThrew

\* The routine throws at the given line: the handler, and in deferred mode
\* the script that called it, is abandoned.
throw(line) ==
    /\ pc' = [phase |-> "idle", i |-> 0]
    /\ initThrew' = initThrew \cup {line}
    /\ UNCHANGED ran

\* The document the running call sees: a script in the head runs its
\* script-end calls before any element is parsed.
Doc == IF env.mode = "head" /\ pc.phase = "end" THEN {} ELSE present

call == IF pc.phase = "ready" THEN "ready" ELSE "end"

observe(ctl, els) ==
    observed' = [observed EXCEPT ![[ctl |-> ctl, call |-> call]] = els]

addClass(els, c) == [e \in Kinds |-> IF e \in els THEN classes[e] \cup {c} ELSE classes[e]]

\* A routine of plainRoutines runs.
initPlain ==
    /\ current \in plainRoutines
    /\ return
    /\ UNCHANGED <<env, present, observed, classes, style, submitListeners,
                   revealedBy, calloutThrew>>
    /\ UNCHANGED notPageVars

\* initBurgerMenu (script.js:36-83): qsa('.nav__link', menu) dereferences
\* menu before the guard of line 41.
initBurgerMenu ==
    /\ current = "initBurgerMenu"
    /\ IF "navMenu" \in Doc THEN return ELSE throw(39)
    /\ UNCHANGED <<env, present, observed, classes, style, submitListeners,
                   revealedBy, calloutThrew>>
    /\ UNCHANGED notPageVars

\* initStickyCta (script.js:113-131): the constructor is used unguarded.
initStickyCta ==
    /\ current = "initStickyCta"
    /\ IF "stickyCta" \notin Doc \/ "hero" \notin Doc THEN return
       ELSE IF env.hasIO THEN return
       ELSE throw(119)
    /\ UNCHANGED <<env, present, observed, classes, style, submitListeners,
                   revealedBy, calloutThrew>>
    /\ UNCHANGED notPageVars

\* initScrollAnimations (script.js:160-188)
initScrollAnimations ==
    /\ current = "initScrollAnimations"
    /\ LET allObserved == selects["initScrollAnimations"] \cap Doc
       IN  IF allObserved = {} \/ ~env.hasIO
           THEN /\ classes' = addClass(allObserved, "is-visible")
                /\ UNCHANGED observed
           ELSE /\ observe("initScrollAnimations", allObserved)
                /\ UNCHANGED classes
    /\ return
    /\ UNCHANGED <<env, present, style, submitListeners, revealedBy, calloutThrew>>
    /\ UNCHANGED notPageVars

\* The style-based controllers: initProcessReveal, initServiceCardReveal,
\* initTestimonialReveal (script.js:522-549, 552-578, 581-607).
initStyleReveal(ctl) ==
    /\ current = ctl
    /\ LET els == selects[ctl] \cap Doc
       IN  IF env.reducedMotion \/ els = {} \/ ~env.hasIO
           THEN UNCHANGED <<style, observed>>
           ELSE /\ style' = [e \in Kinds |->
                                IF e \in els
                                THEN [opacity |-> "0", transform |-> hiddenTransform[ctl]]
                                ELSE style[e]]
                /\ observe(ctl, els)
    /\ return
    /\ UNCHANGED <<env, present, classes, submitListeners, revealedBy, calloutThrew>>
    /\ UNCHANGED notPageVars

initProcessReveal == initStyleReveal("initProcessReveal")
initServiceCardReveal == initStyleReveal("initServiceCardReveal")
initTestimonialReveal == initStyleReveal("initTestimonialReveal")

\* The class-based controllers: initSectionHeaderReveal, initTestimonialSlide,
\* initConnectorDraw, initAreaListReveal (script.js:820-837, 872-890,
\* 893-912, 915-931). Only initConnectorDraw asks for a wide viewport.
initClassReveal(ctl) ==
    /\ current = ctl
    /\ LET els == selects[ctl] \cap Doc
       IN  IF \/ env.reducedMotion
              \/ (ctl = "initConnectorDraw" /\ ~env.wide)
              \/ els = {}
              \/ ~env.hasIO
           THEN UNCHANGED observed
           ELSE observe(ctl, els)
    /\ return
    /\ UNCHANGED <<env, present, classes, style, submitListeners, revealedBy,
                   calloutThrew>>
    /\ UNCHANGED notPageVars

initSectionHeaderReveal == initClassReveal("initSectionHeaderReveal")
initTestimonialSlide == initClassReveal("initTestimonialSlide")
initConnectorDraw == initClassReveal("initConnectorDraw")
initAreaListReveal == initClassReveal("initAreaListReveal")

\* The reduced-motion branch of the ready handler (script.js:989-997).
showAllAnimated ==
    /\ current = "showAllAnimated"
    /\ LET shown == {"fadeUp", "whyCard", "serviceCard", "processStep",
                     "testimonialCard"} \cap Doc
       IN  /\ style' = [e \in Kinds |->
                           IF e \in shown
                           THEN [opacity |-> "1", transform |-> "none"]
                           ELSE style[e]]
           /\ classes' = addClass(shown \cup ({"sectionHeader"} \cap Doc), "is-visible")
    /\ return
    /\ UNCHANGED <<env, present, observed, submitListeners, revealedBy, calloutThrew>>
    /\ UNCHANGED notPageVars

\* initContactForm (script.js:251-404), for the listener it registers.
initContactForm ==
    /\ current = "initContactForm"
    /\ submitListeners' =
          IF "contactForm" \in Doc THEN Append(submitListeners, "form")
          ELSE submitListeners
    /\ return
    /\ UNCHANGED <<env, present, observed, classes, style, revealedBy, calloutThrew>>
    /\ UNCHANGED notPageVars

\* patchFormSubmitButton (script.js:945-956), for the listener it registers.
patchFormSubmitButton ==
    /\ current = "patchFormSubmitButton"
    /\ submitListeners' =
          IF "contactForm" \in Doc /\ "formSubmit" \in Doc
          THEN Append(submitListeners, "patch")
          ELSE submitListeners
    /\ return
    /\ UNCHANGED <<env, present, observed, classes, style, revealedBy, calloutThrew>>
    /\ UNCHANGED notPageVars

\* The document finishes loading and the ready handler starts
\* (script.js:32).
DOMContentLoaded ==
    /\ pc.phase = "loading"
    /\ pc' = [phase |-> "ready", i |-> 1]
    /\ UNCHANGED <<env, present, ran, initThrew, observed, classes, style,
                   submitListeners, revealedBy, calloutThrew>>
    /\ UNCHANGED notPageVars

\* No script is running: callbacks and events can be delivered.
Quiet == pc.phase \in {"loading", "idle"}

unobserveKept(o, e) == observed

\* observer.unobserve(entry.target)
unobserve(o, e) == [observed EXCEPT ![o] = @ \ {e}]

\* An observer's callback for one entry (script.js:176-183, 536-544,
\* 565-573, 594-602, 826-833, 879-886, 901-908, 922-927).
Notify(o, e, isIntersecting) ==
    /\ Quiet
    /\ e \in observed[o]
    /\ IF ~isIntersecting
       THEN UNCHANGED <<observed, classes, style, revealedBy, calloutThrew>>
       ELSE IF o.ctl \in DOMAIN hiddenTransform
       THEN /\ style' = [style EXCEPT ![e] = [opacity |-> "1", transform |-> "translateY(0)"]]
            /\ observed' = unobserve(o, e)
            /\ revealedBy' = revealedBy \cup {<<o, e>>}
            /\ UNCHANGED <<classes, calloutThrew>>
       ELSE IF o.ctl = "initConnectorDraw"
       THEN IF "processStep" \in present
            THEN /\ classes' = addClass({"processStep"}, "is-connector-visible")
                 /\ observed' = unobserve(o, e)
                 /\ revealedBy' = revealedBy \cup {<<o, e>>}
                 /\ UNCHANGED <<style, calloutThrew>>
            ELSE \* closest('.process-step') is null: TypeError at line 904
                 /\ calloutThrew' = calloutThrew \cup {904}
                 /\ UNCHANGED <<observed, classes, style, revealedBy>>
       ELSE /\ classes' = addClass({e}, "is-visible")
            /\ observed' = unobserve(o, e)
            /\ revealedBy' = revealedBy \cup {<<o, e>>}
            /\ UNCHANGED <<style, calloutThrew>>
    /\ UNCHANGED <<env, present, pc, ran, initThrew, submitListeners>>
    /\ UNCHANGED notPageVars

\* The mousemove and mouseleave listeners of initCardTilt on a service card
\* (script.js:772-786), on a device that can hover.
CardTilt(leave) ==
    /\ Quiet
    /\ "initCardTilt" \in ran
    /\ "serviceCard" \in present
    /\ style' = [style EXCEPT !["serviceCard"].transform =
                    IF leave THEN "" ELSE "translateY(-5px) rotateX() rotateY()"]
    /\ UNCHANGED <<env, present, pc, ran, initThrew, observed, classes,
                   submitListeners, revealedBy, calloutThrew>>
    /\ UNCHANGED notPageVars

\* The script starts: nothing has run, nothing is marked.
PageStart(e, els) ==
    /\ env = e
    /\ present = els
    /\ pc = IF e.mode = "deferred" THEN [phase |-> "ready", i |-> 1]
            ELSE [phase |-> "end", i |-> 1]
    /\ ran = {}
    /\ initThrew = {}
    /\ observed = [o \in Observers |-> {}]
    /\ classes = [k \in Kinds |-> {}]
    /\ style = [k \in Kinds |-> [opacity |-> "", transform |-> ""]]
    /\ submitListeners = <<>>
    /\ revealedBy = {}
    /\ calloutThrew = {}

Envs ==
    [hasIO : BOOLEAN, clipboard : BOOLEAN, reducedMotion : BOOLEAN,
     wide : BOOLEAN, mode : LoadModes]

\* The page at rest (in the specifications that do not use it).
PageIdle ==
    /\ env = [hasIO |-> TRUE, clipboard |-> TRUE, reducedMotion |-> FALSE,
              wide |-> TRUE, mode |-> "head"]
    /\ present = {}
    /\ pc = [phase |-> "idle", i |-> 0]
    /\ ran = {}
    /\ initThrew = {}
    /\ observed = [o \in Observers |-> {}]
    /\ classes = [k \in Kinds |-> {}]
    /\ style = [k \in Kinds |-> [opacity |-> "", transform |-> ""]]
    /\ submitListeners = <<>>
    /\ revealedBy = {}
    /\ calloutThrew = {}

\* The initialisation, on pages that lack at most MaxAbsent kinds of
\* element, and on the page that has none.
MaxAbsent == 1

Pages ==
    {{}} \cup {Kinds \ gone : gone \in {g \in SUBSET Kinds : Cardinality(g) <= MaxAbsent}}

InitInit ==
    /\ WidgetsIdle
    /\ ValidatorIdle
    /\ FormIdle
    /\ \E e \in Envs : \E els \in Pages : PageStart(e, els)

NextInit ==
    \/ initPlain
    \/ initBurgerMenu
    \/ initStickyCta
    \/ initScrollAnimations
    \/ initProcessReveal
    \/ initServiceCardReveal
    \/ initTestimonialReveal
    \/ initSectionHeaderReveal
    \/ initTestimonialSlide
    \/ initConnectorDraw
    \/ initAreaListReveal
    \/ showAllAnimated
    \/ initContactForm
    \/ patchFormSubmitButton
    \/ DOMContentLoaded

SpecInit == InitInit /\ [][NextInit]_vars

\* The reveal controllers at work: the full page, and the page whose
\* connectors have no .process-step ancestor.
RevealInit ==
    /\ WidgetsIdle
    /\ ValidatorIdle
    /\ FormIdle
    /\ \E e \in Envs : \E els \in {Kinds, Kinds \ {"processStep"}} :
          /\ e.clipboard
          /\ PageStart(e, els)

NextReveal ==
    \/ initPlain
    \/ initBurgerMenu
    \/ initStickyCta
    \/ initScrollAnimations
    \/ initProcessReveal
    \/ initServiceCardReveal
    \/ initTestimonialReveal
    \/ initSectionHeaderReveal
    \/ initTestimonialSlide
    \/ initConnectorDraw
    \/ initAreaListReveal
    \/ showAllAnimated
    \/ initContactForm
    \/ patchFormSubmitButton
    \/ DOMContentLoaded
    \/ \E o \in Observers : \E e \in selects[o.ctl] : \E b \in BOOLEAN :
          Notify(o, e, b)
    \/ \E leave \in BOOLEAN : CardTilt(leave)

SpecReveal == RevealInit /\ [][NextReveal]_vars

\* The form at work, on the page with every element of the form.
MaxSubmits == 1

FormInit ==
    /\ WidgetsIdle
    /\ ValidatorIdle
    /\ PageIdle
    /\ \E mode \in LoadModes : FormReady(FullForm, mode, MaxSubmits)

NextForm ==
    \/ \E id \in FieldIds : \E v \in FormValues[id] : Input(id, v)
    \/ \E to \in FieldIds \cup {"body", "formSubmit"} : MoveFocus(to)
    \/ SubmitInvalid
    \/ SubmitValid
    \/ Tick
    \/ Complete
    \/ HideSuccess
    \/ AddSubmitting
    \/ RemoveSubmitting

SpecForm == FormInit /\ [][NextForm]_vars

(***************************************************************************)
(* The inputs of the validator harness                                     *)
(***************************************************************************)
MaxPad == 1
MaxRun == 21

RECURSIVE rep(_, _)
rep(c, n) == IF n = 0 THEN <<>> ELSE <<c>> \o rep(c, n - 1)

RunChars == {"7", "a", " ", "-"}
Prefixes == {<<>>, <<"+">>}
Suffixes == {<<>>, <<"x">>, <<"(", "1", ")">>}

\* "+381 64 123 4567"
PhoneExample ==
    <<"+", "3", "8", "1", " ", "6", "4", " ", "1", "2", "3", " ",
      "4", "5", "6", "7">>

ExampleValues ==
    { PhoneExample,
      <<"a", "b", "c">>,
      <<"\t", "\n">>,
      <<"0", "6", "4", ".", "1", "2", "3", "-", "4", "5", "+">> }

ValidatorValues ==
    ExampleValues \cup
    { rep(" ", l) \o pre \o rep(c, n) \o suf \o rep(" ", r) :
        l \in 0 .. MaxPad, pre \in Prefixes, c \in RunChars,
        n \in 0 .. MaxRun, suf \in Suffixes, r \in 0 .. MaxPad }

\* formEmail stands for a field the rule table has no entry for, and
\* constructor for one whose id names an inherited member.
ValidatorIds == FieldIds \cup {"formEmail", "constructor"}

ValidatorInit ==
    /\ WidgetsIdle
    /\ vfield \in [id : ValidatorIds, value : ValidatorValues]
    /\ verror = "pending"
    /\ FormIdle
    /\ PageIdle

\* const error = validateField(field) (script.js:334, 340, 357)
Validate ==
    /\ verror = "pending"
    /\ verror' = validateField(vfield)
    /\ UNCHANGED vfield
    /\ UNCHANGED notValidatorVars

NextValidator == Validate

SpecValidator == ValidatorInit /\ [][NextValidator]_vars

(***************************************************************************)
(* Properties of the validator                                             *)
(***************************************************************************)
AllWhite(s) == \A i \in 1 .. Len(s) : s[i] \in WhiteSpace

\* The length of s between its first and its last non-blank character.
CoreLen(s) ==
    IF AllWhite(s) THEN 0
    ELSE LET nb == {i \in 1 .. Len(s) : s[i] \notin WhiteSpace}
             lo == CHOOSE i \in nb : \A j \in nb : i <= j
             hi == CHOOSE i \in nb : \A j \in nb : j <= i
         IN  hi - lo + 1

\* The value between its first and its last non-blank character.
Core(s) ==
    IF AllWhite(s) THEN <<>>
    ELSE LET nb == {i \in 1 .. Len(s) : s[i] \notin WhiteSpace}
             lo == CHOOSE i \in nb : \A j \in nb : i <= j
             hi == CHOOSE i \in nb : \A j \in nb : j <= i
         IN  SubSeq(s, lo, hi)

Validated == verror # "pending"

\* C3: for every tracked field, an empty or whitespace-only value yields that
\* field's required message, never its minLength or pattern message.
C3_RequiredOnBlank ==
    (Validated /\ vfield.id \in FieldIds /\ AllWhite(vfield.value))
        => /\ verror = rules[vfield.id].messages.required
           /\ \A k \in DOMAIN rules[vfield.id].messages \ {"required"} :
                  verror # rules[vfield.id].messages[k]

C3_Witness ==
    /\ Validated
    /\ vfield.id = "formName"
    /\ vfield.value = <<" ", " ">>
    /\ verror = "Ime i prezime su obavezni."

\* The minimum lengths the claim names.
ClaimedMinLength == [formName |-> 2, formMessage |-> 10]

\* C4: for formName (2) and formMessage (10), the length message is returned
\* exactly when the trimmed value is non-empty and shorter than the minimum;
\* blanks around the value never count, and a trimmed value of at least the
\* minimum length yields the empty string.
C4_MinLengthOnTrimmed ==
    (Validated /\ vfield.id \in DOMAIN ClaimedMinLength)
        => LET n     == CoreLen(vfield.value)
               short == n > 0 /\ n < ClaimedMinLength[vfield.id]
           IN  /\ (verror = rules[vfield.id].messages.minLength) <=> short
               /\ n >= ClaimedMinLength[vfield.id] => verror = ""

C4_Witness ==
    /\ Validated
    /\ vfield.id = "formName"
    /\ vfield.value = <<" ", "a", " ">>
    /\ verror = "Unesite puno ime (minimum 2 karaktera)."

\* The characters the claim allows after the optional leading plus sign.
ClaimedPhoneChars == Digits \cup WhiteSpace \cup {"-", "(", ")", "."}

ClaimedPhoneShape(s) ==
    LET k == IF s # <<>> /\ s[1] = "+" THEN 1 ELSE 0
    IN  \A i \in (k + 1) .. Len(s) : s[i] \in ClaimedPhoneChars

IsPhoneCase == Validated /\ vfield.id = "formPhone" /\ ~AllWhite(vfield.value)

\* C5 as stated: a non-empty trimmed phone value passes if and only if it is
\* an optional '+' followed only by digits, blanks, hyphens, parentheses and
\* periods and its total length, the '+' included, is between 7 and 20.
C5_TotalLengthAsClaimed ==
    IsPhoneCase =>
        LET s == Core(vfield.value)
        IN  (verror = "") <=> (ClaimedPhoneShape(s) /\ Len(s) \in 7 .. 20)

\* C5 (amended): a non-empty trimmed phone value passes if and only if it is
\* an optional '+' followed only by digits, blanks, hyphens, parentheses and
\* periods and its length NOT counting the leading '+' is between 7 and 20;
\* "+381 64 123 4567" passes, "abc" fails and a string of 21 or more digits
\* fails.
C5_PhonePattern ==
    /\ IsPhoneCase =>
        LET s == Core(vfield.value)
            k == IF s[1] = "+" THEN 1 ELSE 0
        IN  (verror = "") <=> (ClaimedPhoneShape(s) /\ (Len(s) - k) \in 7 .. 20)
    /\ (IsPhoneCase /\ vfield.value = <<"a", "b", "c">>)
        => verror = "Unesite ispravan broj telefona."
    /\ (IsPhoneCase /\ vfield.value = PhoneExample) => verror = ""
    /\ (IsPhoneCase /\ Len(vfield.value) >= 21
            /\ \A i \in 1 .. Len(vfield.value) : vfield.value[i] \in Digits)
        => verror = "Unesite ispravan broj telefona."

\* A '+' followed by twenty digits: 21 characters in all, and accepted.
C5_Witness ==
    /\ IsPhoneCase
    /\ vfield.value = <<"+">> \o rep("7", 20)
    /\ verror = ""

\* C6: validateField is total: a field without a rule is always valid, and a
\* field with a rule gets the empty string or one of the messages its rule
\* declares, never an absent one.
C6_TotalOverRules ==
    Validated =>
        /\ verror # undefined
        /\ vfield.id \notin FieldIds => verror = ""
        /\ vfield.id \in FieldIds =>
              verror \in {""} \cup
                  {rules[vfield.id].messages[k] : k \in DOMAIN rules[vfield.id].messages}

C6_Witness ==
    /\ Validated
    /\ vfield.id = "formEmail"
    /\ vfield.value = <<"a">>
    /\ verror = ""

(***************************************************************************)
(* Properties of the form controller                                       *)
(***************************************************************************)
Present == page.markup.fields

Fails(id) == validateField(Field(id)) # ""

\* The steps of the form, told apart by what they change.
IsSubmit == submitsLeft' < submitsLeft
CountFn(ts, fn) == Cardinality({i \in 1 .. Len(ts) : ts[i].fn = fn})
IsCompletion == CountFn(timers', "complete") < CountFn(timers, "complete")
IsInputOn(id) == value'[id] # value[id] /\ ~IsCompletion
IsBlurOf(id) == focused = id /\ focused' # id

\* The position of a field in the declaration order name, phone, message.
Position(id) == CHOOSE i \in 1 .. Len(ruleKeys) : ruleKeys[i] = id

\* C1: a submit event with at least one invalid tracked field changes no
\* value, marks exactly the invalid fields, moves the focus to the first
\* invalid field in declaration order, and attempts no submission: the
\* submit control, the completion timers and the success notice are as
\* they were.
C1_InvalidSubmit ==
    [][ (IsSubmit /\ \E id \in Present : Fails(id)) =>
            /\ value' = value
            /\ \A id \in Present :
                  /\ isInvalid'[id] <=> Fails(id)
                  /\ ariaInvalid'[id] = IF Fails(id) THEN "true" ELSE "false"
            /\ focused' \in Present
            /\ Fails(focused')
            /\ \A id \in Present : Fails(id) => Position(focused') <= Position(id)
            /\ submitBtn'.disabled = submitBtn.disabled
            /\ submitBtn'.caption = submitBtn.caption
            /\ CountFn(timers', "complete") = CountFn(timers, "complete")
            /\ CountFn(timers', "hideSuccess") = CountFn(timers, "hideSuccess")
            /\ successHidden' = successHidden
      ]_vars

\* Just after a rejected submit: name valid, phone and message marked, the
\* focus on phone, and nothing pending but the spinner timers just set.
C1_Witness ==
    /\ submitsLeft < MaxSubmits
    /\ timers # <<>>
    /\ \A i \in 1 .. Len(timers) :
          timers[i].age = 0 /\ timers[i].fn \in {"addSubmitting", "removeSubmitting"}
    /\ ~submitBtn.disabled
    /\ value["formName"] = <<"A", "n", "a">>
    /\ isInvalid = [formName |-> FALSE, formPhone |-> TRUE, formMessage |-> TRUE]
    /\ focused = "formPhone"

\* The delay the claim names, in milliseconds.
ClaimedSubmitDelay == 900

\* C2: a submit event with every tracked field valid disables the submit
\* control and shows the sending caption at once and starts one completion
\* timer; that timer is never pending for longer than 900 ms, it goes away
\* only by running, it runs once 900 ms have passed and not before, whatever
\* happened in between, and running it leaves the fields cleared, the
\* control enabled with its original caption, the success notice shown and
\* no field marked.
C2_ValidSubmit ==
    /\ [][
          /\ (IsSubmit /\ page.markup.formSubmit /\ \A id \in Present : ~Fails(id)) =>
                /\ submitBtn'.disabled
                /\ submitBtn'.caption = SendingCaption
                /\ CountFn(timers', "complete") = CountFn(timers, "complete") + 1
                /\ \E i \in 1 .. Len(timers') :
                      timers'[i].fn = "complete" /\ timers'[i].age = 0
          /\ IsCompletion =>
                /\ \E i \in 1 .. Len(timers) :
                      /\ timers[i].fn = "complete"
                      /\ timers[i].age * TickMs >= ClaimedSubmitDelay
                /\ \A id \in Present : value'[id] = <<>>
                /\ ~submitBtn'.disabled
                /\ submitBtn'.caption = DefaultCaption
                /\ page.markup.formSuccess => ~successHidden'
                /\ \A id \in Present :
                      ~isInvalid'[id] /\ ariaInvalid'[id] = "false" /\ errorText'[id] = ""
          /\ (~IsCompletion) =>
                CountFn(timers', "complete") >= CountFn(timers, "complete")
       ]_vars
    /\ [](\A i \in 1 .. Len(timers) :
             (timers[i].fn = "complete")
                 => ((timers[i].age - 1) * TickMs < ClaimedSubmitDelay))

\* Just after a completion: the notice is up and its hide timer just set.
C2_Witness ==
    /\ submitsLeft < MaxSubmits
    /\ ~successHidden
    /\ \E i \in 1 .. Len(timers) : timers[i].fn = "hideSuccess" /\ timers[i].age = 0
    /\ \A id \in FieldIds : value[id] = <<>> /\ ariaInvalid[id] = "false"
    /\ ~submitBtn.disabled
    /\ submitBtn.caption = DefaultCaption

\* C7: an input event re-validates and re-renders the field if and only if
\* the field is marked invalid at that moment, so the edit that makes the
\* value valid removes the mark; on an unmarked field it changes no mark,
\* flag or error text, and an unmarked field becomes marked only by a blur
\* or a submit.
C7_InputRevalidatesWhenMarked ==
    [][ \A id \in Present :
          /\ (IsInputOn(id) /\ isInvalid[id]) =>
                LET msg == validateField([id |-> id, value |-> value'[id]])
                IN  /\ isInvalid'[id] <=> msg # ""
                    /\ ariaInvalid'[id] = IF msg # "" THEN "true" ELSE "false"
                    /\ id \in page.markup.errorEls => errorText'[id] = msg
          /\ (IsInputOn(id) /\ ~isInvalid[id]) =>
                /\ ~isInvalid'[id]
                /\ ariaInvalid'[id] = ariaInvalid[id]
                /\ errorText'[id] = errorText[id]
          /\ (~isInvalid[id] /\ isInvalid'[id]) => (IsBlurOf(id) \/ IsSubmit)
      ]_vars

\* A field marked by a blur and then edited to a valid value while it has
\* the focus: the mark is gone, and nothing else was ever rendered.
C7_Witness ==
    /\ submitsLeft = MaxSubmits
    /\ focused = "formName"
    /\ value["formName"] = <<"A", "n", "a">>
    /\ ariaInvalid = [formName |-> "false", formPhone |-> "unset", formMessage |-> "unset"]
    /\ ~isInvalid["formName"]
    /\ errorText["formName"] = ""

(***************************************************************************)
(* Properties of the reveal controllers and of the initialisation          *)
(***************************************************************************)
\* The marker an observer's callback flags its element with.
FlaggedBy(o, e) ==
    IF o.ctl \in DOMAIN hiddenTransform THEN style[e].opacity = "1"
    ELSE IF o.ctl = "initConnectorDraw"
         THEN "is-connector-visible" \in classes["processStep"]
    ELSE "is-visible" \in classes[e]

\* C8: an element a reveal controller has flagged visible (by the is-visible
\* class, the connector class, or the inline opacity 1) stays flagged in
\* every later state, whatever enters or leaves the viewport, and the
\* observer that revealed it no longer observes it.
C8_RevealIsOneShot ==
    /\ [][ \A e \in Kinds :
             /\ \A c \in classes[e] : c \in classes'[e]
             /\ style[e].opacity = "1" => style'[e].opacity = "1"
         ]_vars
    /\ [](\A pair \in revealedBy :
             /\ pair[2] \notin observed[pair[1]]
             /\ FlaggedBy(pair[1], pair[2]))

\* A service card revealed and then tilted and left, and a section header
\* revealed by the observer of one call while the other call's observer
\* still watches it.
C8_Witness ==
    /\ <<[ctl |-> "initServiceCardReveal", call |-> "ready"], "serviceCard">> \in revealedBy
    /\ style["serviceCard"] = [opacity |-> "1", transform |-> ""]
    /\ <<[ctl |-> "initSectionHeaderReveal", call |-> "end"], "sectionHeader">> \in revealedBy
    /\ "sectionHeader" \in observed[[ctl |-> "initSectionHeaderReveal", call |-> "ready"]]
    /\ "is-visible" \in classes["sectionHeader"]

\* The revealed state of an element of each kind: the marker class of its
\* class-based controllers applied, and not hidden by an inline opacity.
Revealed(e) ==
    /\ style[e].opacity # "0"
    /\ e \in {"fadeUp", "whyCard", "sectionHeader", "testimonialCard", "areaList"}
          => "is-visible" \in classes[e]
    /\ (e = "connector" /\ env.wide /\ "processStep" \in present)
          => "is-connector-visible" \in classes["processStep"]

InitFinished == pc.phase = "idle" /\ initThrew = {}

\* C9: without IntersectionObserver, or with reduced motion preferred, every
\* element of every reveal controller is in its revealed state as soon as
\* the initialisation has finished.
C9_RevealedWithoutObserver ==
    (InitFinished /\ (~env.hasIO \/ env.reducedMotion))
        => \A e \in RevealKinds \cap present : Revealed(e)

\* C10: whatever elements and capabilities are absent, every init routine
\* of the ready handler returns normally, so all of them run,
\* initContactForm included.
C10_EveryRoutineReturns ==
    pc.phase = "idle" =>
        /\ initThrew = {}
        /\ \A i \in 1 .. Len(readyCalls) : readyCalls[i] \in ran

\* C18: counting the calls of the ready handler and those at the end of
\* the script, no element is observed by two observers of one controller,
\* and no element's reveal callback runs twice for one controller.
C18_RevealedOnce ==
    \A ctl \in Controllers : \A e \in selects[ctl] :
        LET ready == [ctl |-> ctl, call |-> "ready"]
            end   == [ctl |-> ctl, call |-> "end"]
        IN  /\ ~(e \in observed[ready] /\ e \in observed[end])
            /\ ~(<<ready, e>> \in revealedBy /\ <<end, e>> \in revealedBy)

(***************************************************************************)
(* The form on pages that lack some of its elements                        *)
(***************************************************************************)
\* The full form, and the form without its submit button, without its
\* success notice, without one of its fields, without one of its error
\* elements (script.js:252-254, 315, 330).
FormPages ==
    { FullForm,
      [FullForm EXCEPT !.formSubmit = FALSE],
      [FullForm EXCEPT !.formSuccess = FALSE],
      [FullForm EXCEPT !.fields = FieldIds \ {"formPhone"}],
      [FullForm EXCEPT !.errorEls = FieldIds \ {"formName"}] }

PagesInit ==
    /\ WidgetsIdle
    /\ ValidatorIdle
    /\ PageIdle
    /\ \E markup \in FormPages : FormReady(markup, "body", MaxSubmits)

SpecFormPages == PagesInit /\ [][NextForm]_vars

\* C11: a controller whose elements are not all there raises no error after
\* its setup: no submit event on a form without #formSubmit, and no
\* connector without a .process-step ancestor coming into view, ends in an
\* uncaught error.
C11_NoErrorAfterSetup == uncaught = {} /\ calloutThrew = {}

\* The field has been rendered at least once.
Rendered(id) == ariaInvalid[id] # "unset"

\* C19: for every tracked field that has been rendered, the is-invalid
\* class is there if and only if aria-invalid is "true" if and only if the
\* error text (where the page has the field's error element) is non-empty;
\* and the text is what the last rendering was given: validateField's
\* message on a blur, a submit or an input on a marked field, the empty
\* string at the completion of a submission, and untouched otherwise.
C19_RenderingsAgree ==
    /\ [](\A id \in Present :
             /\ ~Rendered(id) => (~isInvalid[id] /\ errorText[id] = "")
             /\ Rendered(id) =>
                   /\ isInvalid[id] <=> ariaInvalid[id] = "true"
                   /\ ~isInvalid[id] <=> ariaInvalid[id] = "false"
                   /\ id \in page.markup.errorEls =>
                         (isInvalid[id] <=> errorText[id] # ""))
    /\ [][ \A id \in Present \cap page.markup.errorEls :
             LET msg == validateField([id |-> id, value |-> value'[id]])
             IN  IF IsCompletion THEN errorText'[id] = ""
                 ELSE IF IsSubmit \/ IsBlurOf(id) \/ (IsInputOn(id) /\ isInvalid[id])
                 THEN errorText'[id] = msg
                 ELSE errorText'[id] = errorText[id]
       ]_vars

\* On the page without the error element of the name field: name and phone
\* both marked, the phone's message shown and no text for the name.
C19_Witness ==
    /\ "formName" \notin page.markup.errorEls
    /\ isInvalid["formName"] /\ ariaInvalid["formName"] = "true"
    /\ errorText["formName"] = ""
    /\ isInvalid["formPhone"] /\ ariaInvalid["formPhone"] = "true"
    /\ errorText["formPhone"] = "Broj telefona je obavezan."

\* C20: in every reachable state a tracked field that is marked invalid
\* has a value that fails validation.
C20_NoStaleError ==
    \A id \in Present : isInvalid[id] => Fails(id)

\* The phone field, marked by a rejected submit, then edited to a valid
\* value: its mark is gone while the empty message field keeps its own.
C20_Witness ==
    /\ submitsLeft < MaxSubmits
    /\ value["formPhone"] # <<>>
    /\ ~Fails("formPhone")
    /\ ariaInvalid["formPhone"] = "false"
    /\ isInvalid["formMessage"]
    /\ value["formMessage"] = <<>>
    /\ timers = <<>>

\* C21: the btn--submitting class is on the submit button only while a
\* submission is in flight, that is while the control is disabled: a submit
\* rejected by validation never adds it, and it is gone whenever the
\* completion has re-enabled the control.
C21_SubmittingOnlyInFlight == submitBtn.submitting => submitBtn.disabled

(***************************************************************************)
(* The form submitted more than once                                       *)
(***************************************************************************)
MaxResubmits == 2

\* The submit listener runs on every submit event, whatever the state of
\* the submit control: nothing of script.js:347-403 reads submitBtn.disabled.
ResubmitInit ==
    /\ WidgetsIdle
    /\ ValidatorIdle
    /\ PageIdle
    /\ FormReady(FullForm, "head", MaxResubmits)

NextResubmit ==
    \/ \E id \in FieldIds : \E v \in FormValues[id] : Input(id, v)
    \/ SubmitInvalid
    \/ SubmitValid
    \/ Tick
    \/ Complete
    \/ HideSuccess
    \/ AddSubmitting
    \/ RemoveSubmitting

SpecResubmit == ResubmitInit /\ [][NextResubmit]_vars

\* C14: the success notice stays visible for the whole auto-hide delay
\* counted from each time a completed submission showed it: while the hide
\* timer of any showing still has time to run the notice is visible.
C14_NoticeStaysForDelay ==
    \A i \in 1 .. Len(timers) :
        (timers[i].fn = "hideSuccess" /\ timers[i].left > 0) => ~successHidden

\* C15: at most one simulated submission is in flight: no completion timer
\* is started while another is pending.
C15_OneInFlight == CountFn(timers, "complete") <= 1

(***************************************************************************)
(* The stats counters (script.js:191-248, 811-817)                         *)
(***************************************************************************)
\* animateCounter's default duration, in milliseconds (script.js:201)
Duration == 1600

\* The model samples the animation every FrameMs milliseconds, a tenth of
\* the duration, so that 2^(-10 t) is a power of two at every sample.
FrameMs == 160

\* A frame callback can come late: up to MaxFrameSkip samples at once.
MaxFrameSkip == 3

RECURSIVE pow2(_)
pow2(k) == IF k = 0 THEN 1 ELSE 2 * pow2(k - 1)

\* progress = Math.min(elapsed / duration, 1), in tenths (script.js:212)
progress(elapsed) ==
    IF elapsed * FrameMs >= Duration THEN 10 ELSE (elapsed * FrameMs * 10) \div Duration

\* An easing with the sign of the exponential wrong: 1 + 2^(-10 t).
easeOvershoot(t) ==
    IF t = 10 THEN [num |-> 1, den |-> 1]
    ELSE [num |-> pow2(t) + 1, den |-> pow2(t)]

\* easeOutExpo (script.js:206-208) of t tenths, as a fraction
easeOutExpo(t) ==
    IF t = 10 THEN [num |-> 1, den |-> 1]
    ELSE [num |-> pow2(t) - 1, den |-> pow2(t)]

\* Math.round of a non-negative fraction: halves go up (script.js:213)
round(num, den) == (2 * num + den) \div (2 * den)

\* Number to string, for the non-negative integers (script.js:215, 220)
RECURSIVE toStr(_)
toStr(n) ==
    LET d == <<"0", "1", "2", "3", "4", "5", "6", "7", "8", "9">>[(n % 10) + 1]
    IN  IF n < 10 THEN <<d>> ELSE Append(toStr(n \div 10), d)

NaN == [nan |-> TRUE, n |-> 0]
num(n) == [nan |-> FALSE, n |-> n]

\* target + suffix (script.js:215, 220)
display(target, suffix) ==
    (IF target.nan THEN <<"N", "a", "N">> ELSE toStr(target.n)) \o suffix

\* const map = { 197: '+', 15: '+', 98: '%', 60: '' } (script.js:812)
suffixMap == (197 :> <<"+">>) @@ (15 :> <<"+">>) @@ (98 :> <<"%">>) @@ (60 :> <<>>)

\* patchStatSuffixes (script.js:811-817)
patchStatSuffixes ==
    /\ stat.phase = "markup"
    /\ stat' = [stat EXCEPT !.phase = "patched",
                            !.suffix = IF ~stat.target.nan /\ stat.target.n \in DOMAIN suffixMap
                                       THEN suffixMap[stat.target.n] ELSE @]
    /\ UNCHANGED <<touch, scroll>>
    /\ UNCHANGED notWidgetVars

\* animateCounter (script.js:201-225) up to its requestAnimationFrame(step)
animateCounter(st) == [st EXCEPT !.running = TRUE, !.elapsed = 0]

\* initCounters (script.js:191-248): it never asks for the motion preference.
initCounters ==
    /\ stat.phase = "patched"
    /\ stat' = IF env.hasIO
               THEN [stat EXCEPT !.phase = "ready", !.observed = TRUE]
               ELSE [animateCounter(stat) EXCEPT !.phase = "ready"]
    /\ UNCHANGED <<touch, scroll>>
    /\ UNCHANGED notWidgetVars

\* The counter observer's callback for one entry (script.js:233-242)
CounterNotify(isIntersecting) ==
    /\ stat.phase = "ready"
    /\ stat.observed
    /\ stat' = IF ~isIntersecting THEN stat
               ELSE IF stat.target.nan THEN [stat EXCEPT !.observed = FALSE]
               ELSE [animateCounter(stat) EXCEPT !.observed = FALSE]
    /\ UNCHANGED <<touch, scroll>>
    /\ UNCHANGED notWidgetVars

\* step (script.js:210-222), called d samples after the previous frame
step(d) ==
    /\ stat.running
    /\ d >= (IF stat.frames = 0 THEN 0 ELSE 1)
    /\ LET elapsed == stat.elapsed + d
           t       == progress(elapsed)
           ease    == easeOutExpo(t)
           shown   == IF stat.target.nan THEN NaN
                      ELSE num(round(stat.target.n * ease.num, ease.den))
       IN  stat' = [stat EXCEPT
                       !.elapsed = elapsed,
                       !.frames = @ + 1,
                       !.running = t < 10,
                       !.text = IF t < 10 THEN display(shown, stat.suffix)
                                ELSE display(stat.target, stat.suffix)]
    /\ UNCHANGED <<touch, scroll>>
    /\ UNCHANGED notWidgetVars

\* The data-target and data-suffix attributes of the markup.
StatTargets == {num(0), num(7), num(60), num(98), num(197), NaN}
StatSuffixes == {<<>>, <<"%">>, <<"+">>}

\* The page variables at rest, in a browser e.
PageLoaded(e) ==
    /\ env = e
    /\ present = {}
    /\ pc = [phase |-> "idle", i |-> 0]
    /\ ran = {}
    /\ initThrew = {}
    /\ observed = [o \in Observers |-> {}]
    /\ classes = [k \in Kinds |-> {}]
    /\ style = [k \in Kinds |-> [opacity |-> "", transform |-> ""]]
    /\ submitListeners = <<>>
    /\ revealedBy = {}
    /\ calloutThrew = {}

CounterInit ==
    /\ TouchIdle
    /\ ScrollIdle
    /\ MenuIdle /\ ToastIdle /\ HeroIdle
    /\ ValidatorIdle
    /\ FormIdle
    /\ \E e \in Envs :
          /\ e.clipboard /\ e.wide /\ e.mode = "deferred"
          /\ PageLoaded(e)
    /\ \E target \in StatTargets : \E suffix \in StatSuffixes :
          stat = [phase |-> "markup", target |-> target,
                  markup |-> suffix, suffix |-> suffix, text |-> <<"0">>, observed |-> FALSE, running |-> FALSE,
                  elapsed |-> 0, frames |-> 0]

NextCounter ==
    \/ patchStatSuffixes
    \/ initCounters
    \/ \E b \in BOOLEAN : CounterNotify(b)
    \/ \E d \in 0 .. MaxFrameSkip : step(d)

SpecCounter == CounterInit /\ [][NextCounter]_vars

\* C12: under a reduced-motion preference a counter never displays an
\* intermediate frame: whatever it has displayed is its target followed by
\* its suffix.
C12_NoIntermediateFrame ==
    (env.reducedMotion /\ stat.frames > 0)
        => stat.text = display(stat.target, stat.suffix)

\* The suffix configured for a target: the table's, else the markup's.
ConfiguredSuffix(n, markup) ==
    CASE n = 197 -> <<"+">>
      [] n = 15  -> <<"+">>
      [] n = 98  -> <<"%">>
      [] n = 60  -> <<>>
      [] OTHER   -> markup

AnimatedInteger == stat.frames > 0 /\ ~stat.target.nan

\* C13: every frame of a counter with a non-negative integer target displays
\* an integer between 0 and the target followed by the suffix, the animation
\* is over as soon as a frame finds the duration elapsed, and the text then
\* is exactly the target followed by the suffix ("98%" for 98).
C13_CounterFrames ==
    AnimatedInteger =>
        LET suffix == ConfiguredSuffix(stat.target.n, stat.markup)
        IN  /\ \E n \in 0 .. stat.target.n : stat.text = toStr(n) \o suffix
            /\ stat.running <=> stat.elapsed * FrameMs < Duration
            /\ ~stat.running => stat.text = toStr(stat.target.n) \o suffix
            /\ (~stat.running /\ stat.target.n = 98) => stat.text = <<"9", "8", "%">>

\* The counter of 98, marked up with a plus sign, at the end of an
\* animation of at least three frames.
C13_Witness ==
    /\ AnimatedInteger
    /\ ~stat.running
    /\ stat.target.n = 98
    /\ stat.markup = <<"+">>
    /\ stat.frames >= 3
    /\ stat.text = <<"9", "8", "%">>

(***************************************************************************)
(* Copying the phone number on a long press (script.js:624-645)            *)
(***************************************************************************)
\* setTimeout delay of the long press, in milliseconds (script.js:637)
PressDelay == 700

MaxTouchStarts == 3

StopEvents == {"touchend", "touchmove", "touchcancel"}

\* The touchstart listener (script.js:631-640): the new timer's handle
\* replaces whatever pressTimer held.
touchstart ==
    /\ touch.starts < MaxTouchStarts
    /\ LET id == touch.starts + 1
       IN  touch' = [touch EXCEPT
                        !.starts = id,
                        !.pressTimer = id,
                        !.pending = Append(@, [id |-> id, left |-> Ticks(PressDelay)]),
                        !.last = "touchstart"]
    /\ UNCHANGED <<stat, scroll>>
    /\ UNCHANGED notWidgetVars

\* clearTimeout(pressTimer) (script.js:643): the listener of touchend,
\* touchmove and touchcancel.
clearTimeout(evt) ==
    /\ touch.last # "none"
    /\ touch' = [touch EXCEPT
                    !.pending = SelectSeq(@, LAMBDA t : t.id # touch.pressTimer),
                    !.last = evt]
    /\ UNCHANGED <<stat, scroll>>
    /\ UNCHANGED notWidgetVars

\* Time passes: TickMs milliseconds, when no long-press timer is due.
PressTick ==
    /\ touch.pending # <<>>
    /\ \A i \in 1 .. Len(touch.pending) : touch.pending[i].left > 0
    /\ touch' = [touch EXCEPT
                    !.pending = [i \in 1 .. Len(@) |-> [@[i] EXCEPT !.left = @ - 1]]]
    /\ UNCHANGED <<stat, scroll>>
    /\ UNCHANGED notWidgetVars

\* The long-press callback (script.js:632-639) of the earliest due timer.
LongPress ==
    /\ \E i \in 1 .. Len(touch.pending) : touch.pending[i].left = 0
    /\ LET i == CHOOSE i \in 1 .. Len(touch.pending) :
                    /\ touch.pending[i].left = 0
                    /\ \A j \in 1 .. (i - 1) : touch.pending[j].left > 0
       IN  touch' = [touch EXCEPT
                        !.pending = SubSeq(@, 1, i - 1) \o SubSeq(@, i + 1, Len(@)),
                        !.copied = IF env.clipboard THEN @ + 1 ELSE @]
    /\ UNCHANGED <<stat, scroll>>
    /\ UNCHANGED notWidgetVars

TouchInit ==
    /\ StatIdle
    /\ ScrollIdle
    /\ MenuIdle /\ ToastIdle /\ HeroIdle
    /\ ValidatorIdle
    /\ FormIdle
    /\ \E e \in Envs :
          /\ e.hasIO /\ ~e.reducedMotion /\ e.wide /\ e.mode = "deferred"
          /\ PageLoaded(e)
    /\ TouchIdle

NextTouch ==
    \/ touchstart
    \/ \E evt \in StopEvents : clearTimeout(evt)
    \/ PressTick
    \/ LongPress

SpecTouch == TouchInit /\ [][NextTouch]_vars

\* C16: once a touchmove, touchend or touchcancel has occurred, no
\* long-press timer of the link remains pending.
C16_NoTimerAfterStop ==
    touch.last \in StopEvents => touch.pending = <<>>

(***************************************************************************)
(* The scroll and resize handlers (script.js:86-110, 407-454, 701-732)     *)
(***************************************************************************)
\* Scroll positions, in pixels, on a page that scrolls over DocHeight
\* pixels; the header counts as scrolled beyond ScrolledBeyond pixels
\* (script.js:92).
ScrollYs == {0, 40, 42, 200}
DocHeight == 200
ScrolledBeyond == 40

MaxResizes == 2

\* The frame callbacks without the reset of the ticking flag.
frameCallbackKeepsTicking(h, sc) ==
    LET done == [sc EXCEPT !.updates[h] = @ + 1]
    IN  CASE h = "header"   -> [done EXCEPT !.scrolled = sc.scrollY > ScrolledBeyond]
          [] h = "navLink"  -> [done EXCEPT !.active = sc.scrollY]
          [] h = "progress" -> [done EXCEPT !.width = (sc.scrollY * 100) \div DocHeight]

\* updateHeader, updateActiveLink and the progress callback (script.js:91-98,
\* 427-440, 723-727), each clearing its ticking flag.
frameCallback(h, sc) ==
    LET done == [sc EXCEPT !.ticking = @ \ {h}, !.updates[h] = @ + 1]
    IN  CASE h = "header"   -> [done EXCEPT !.scrolled = sc.scrollY > ScrolledBeyond]
          [] h = "navLink"  -> [done EXCEPT !.active = sc.scrollY]
          [] h = "progress" -> [done EXCEPT !.width = (sc.scrollY * 100) \div DocHeight]

\* The scroll listeners (script.js:100-105, 444-452, 721-731), for the
\* handlers from position i on: each asks for a frame unless it is ticking.
RECURSIVE onScroll(_, _)
onScroll(sc, i) ==
    IF i > Len(ScrollHandlers) THEN sc
    ELSE LET h == ScrollHandlers[i]
         IN  IF h \in sc.handlers /\ h \notin sc.ticking
             THEN onScroll([sc EXCEPT !.queued = Append(@, h),
                                      !.ticking = @ \cup {h}], i + 1)
             ELSE onScroll(sc, i + 1)

\* The frame callbacks queued, run in order.
RECURSIVE runQueued(_)
runQueued(sc) ==
    IF sc.queued = <<>> THEN sc
    ELSE runQueued(frameCallback(Head(sc.queued), [sc EXCEPT !.queued = Tail(@)]))

\* A scroll event at position y.
Scroll(y) ==
    /\ y # scroll.scrollY
    /\ scroll' = onScroll([scroll EXCEPT !.scrollY = y], 1)
    /\ UNCHANGED <<stat, touch>>
    /\ UNCHANGED notWidgetVars

\* A resize event: setVh (script.js:702-705) writes --vh at once.
Resize ==
    /\ scroll.updates["resize"] < MaxResizes
    /\ scroll' = [scroll EXCEPT !.updates["resize"] = @ + 1]
    /\ UNCHANGED <<stat, touch>>
    /\ UNCHANGED notWidgetVars

\* The browser renders a frame: the updates of the last one are over, and
\* the queued requestAnimationFrame callbacks run.
Frame ==
    /\ scroll' = runQueued([scroll EXCEPT !.updates = [h \in AllHandlers |-> 0]])
    /\ UNCHANGED <<stat, touch>>
    /\ UNCHANGED notWidgetVars

\* After initHeaderScroll, initActiveNavLink and initScrollProgress, on a
\* page with the elements of the given handlers, loaded at position y.
ScrollInit ==
    /\ StatIdle
    /\ TouchIdle
    /\ MenuIdle /\ ToastIdle /\ HeroIdle
    /\ ValidatorIdle
    /\ FormIdle
    /\ PageIdle
    /\ \E hs \in SUBSET {"header", "navLink", "progress"} : \E y \in ScrollYs :
          scroll = [handlers |-> hs, scrollY |-> y, ticking |-> {}, queued |-> <<>>,
                    scrolled |-> ("header" \in hs /\ y > ScrolledBeyond),
                    active |-> IF "navLink" \in hs THEN y ELSE 0,
                    width |-> 0,
                    updates |-> [h \in AllHandlers |-> 0]]

NextScroll ==
    \/ \E y \in ScrollYs : Scroll(y)
    \/ Resize
    \/ Frame

SpecScroll == ScrollInit /\ [][NextScroll]_vars

Queued(h) == Cardinality({i \in 1 .. Len(scroll.queued) : scroll.queued[i] = h})

\* C17: the three scroll handlers and the resize handler are throttled: each
\* has at most one frame callback pending, its guard is set exactly while
\* that callback is pending, and it updates the DOM at most once per frame.
C17_Throttled ==
    \A h \in scroll.handlers \cup {"resize"} :
        /\ Queued(h) <= 1
        /\ h \in scroll.ticking <=> Queued(h) = 1
        /\ scroll.updates[h] <= 1

\* The threshold the claim names, in pixels.
ClaimedThreshold == 40

\* C24: throttling loses no final update: whenever no frame callback of the
\* header is pending, whatever scroll events and frames came before, the
\* header has the scrolled class if and only if the scroll position is
\* greater than 40, and the in-flight guard is false.
C24_NoLostUpdate ==
    ("header" \in scroll.handlers /\ Queued("header") = 0) =>
        /\ scroll.scrolled <=> scroll.scrollY > ClaimedThreshold
        /\ "header" \notin scroll.ticking

\* A frame has just run the header's callback, queued by the first of the
\* scroll events since the frame before, and the last of them left the page
\* at 42 pixels.
C24_Witness ==
    /\ "header" \in scroll.handlers
    /\ scroll.queued = <<>>
    /\ scroll.updates["header"] = 1
    /\ scroll.scrollY = 42
    /\ scroll.scrolled

(***************************************************************************)
(* The burger menu (script.js:36-83) and the toast (script.js:648-698)     *)
(***************************************************************************)
\* openMenu (script.js:43-47)
openMenu(m) ==
    [m EXCEPT !.isOpen = TRUE, !.ariaExpanded = "true", !.overflow = "hidden"]

\* closeMenu (script.js:49-53)
closeMenu(m) ==
    [m EXCEPT !.isOpen = FALSE, !.ariaExpanded = "false", !.overflow = ""]

\* What a click can land on: the burger, a nav link of the menu, the menu
\* beside its links, or anything else.
ClickTargets == {"burger", "navLink", "menu", "outside"}

\* The click listeners of the burger and of the nav links (script.js:55-63)
onTargetClick(m, target) ==
    CASE target = "burger"  -> IF m.isOpen THEN closeMenu(m) ELSE openMenu(m)
      [] target = "navLink" -> closeMenu(m)
      [] OTHER              -> m

\* The document's click listener with the burger not excepted.
onDocumentClickAnywhere(m, target) ==
    IF m.isOpen /\ target \notin {"navLink", "menu"} THEN closeMenu(m) ELSE m

\* The document's click listener (script.js:74-82), reached by every click
\* after the target's own listener.
onDocumentClick(m, target) ==
    IF m.isOpen /\ target \notin {"navLink", "menu"} /\ target # "burger"
    THEN closeMenu(m)
    ELSE m

Click(target) ==
    /\ menu' = [onDocumentClick(onTargetClick(menu, target), target)
                   EXCEPT !.last = target]
    /\ UNCHANGED <<toast, hero>>
    /\ UNCHANGED notPointerVars

\* The document's keydown listener (script.js:66-71)
Keydown(key) ==
    /\ menu' = [(IF key = "Escape" /\ menu.isOpen THEN closeMenu(menu) ELSE menu)
                   EXCEPT !.last = key]
    /\ UNCHANGED <<toast, hero>>
    /\ UNCHANGED notPointerVars

\* showToast's default duration, in milliseconds (script.js:648)
ToastDuration == 3000

MaxToasts == 3

\* showToast (script.js:648-698): the toast in the page, if any, is removed
\* and a new one appended; its timer holds on to the new element.
showToast ==
    /\ toast.shown < MaxToasts
    /\ LET id == toast.shown + 1
       IN  toast' = [toast EXCEPT
                        !.shown = id,
                        !.attached = {id},
                        !.timers = Append(@, [id |-> id, left |-> Ticks(ToastDuration)])]
    /\ UNCHANGED <<menu, hero>>
    /\ UNCHANGED notPointerVars

\* Time passes: TickMs milliseconds, when no toast timer is due.
ToastTick ==
    /\ toast.timers # <<>>
    /\ \A i \in 1 .. Len(toast.timers) : toast.timers[i].left > 0
    /\ toast' = [toast EXCEPT
                    !.timers = [i \in 1 .. Len(@) |-> [@[i] EXCEPT !.left = @ - 1]]]
    /\ UNCHANGED <<menu, hero>>
    /\ UNCHANGED notPointerVars

\* The timeout callback acting on whatever toast is in the page.
ToastTimeoutCurrent ==
    /\ toast.timers # <<>>
    /\ Head(toast.timers).left = 0
    /\ toast' = [toast EXCEPT !.timers = Tail(@),
                              !.out = @ \cup toast.attached,
                              !.listening = @ \cup toast.attached]
    /\ UNCHANGED <<menu, hero>>
    /\ UNCHANGED notPointerVars

\* The timeout callback (script.js:694-697) of the earliest timer, once due:
\* it marks its own toast and waits for the end of its animation.
ToastTimeout ==
    /\ toast.timers # <<>>
    /\ Head(toast.timers).left = 0
    /\ toast' = [toast EXCEPT !.timers = Tail(@),
                              !.out = @ \cup {Head(toast.timers).id},
                              !.listening = @ \cup {Head(toast.timers).id}]
    /\ UNCHANGED <<menu, hero>>
    /\ UNCHANGED notPointerVars

\* The animationend listener (script.js:696): the toast-out animation of a
\* toast in the page ends and the toast removes itself.
AnimationEnd ==
    /\ \E id \in toast.attached \cap toast.out \cap toast.listening :
          toast' = [toast EXCEPT !.attached = @ \ {id}, !.listening = @ \ {id}]
    /\ UNCHANGED <<menu, hero>>
    /\ UNCHANGED notPointerVars

\* After initBurgerMenu on a page with #navBurger and #navMenu, whose
\* burger is marked up with aria-expanded="false" or with none.
OverlayInit ==
    /\ StatIdle /\ TouchIdle /\ ScrollIdle /\ HeroIdle
    /\ ValidatorIdle
    /\ FormIdle
    /\ PageIdle
    /\ \E aria \in {"false", "unset"} :
          menu = [isOpen |-> FALSE, ariaExpanded |-> aria, overflow |-> "",
                  last |-> "none"]
    /\ ToastIdle

NextOverlay ==
    \/ \E target \in ClickTargets : Click(target)
    \/ \E key \in {"Escape", "Enter"} : Keydown(key)
    \/ showToast
    \/ ToastTick
    \/ ToastTimeout
    \/ AnimationEnd

SpecOverlay == OverlayInit /\ [][NextOverlay]_vars

\* C22: the menu has the is-open class if and only if aria-expanded is
\* "true" if and only if page scrolling is locked; a burger click always
\* toggles the menu; a nav-link click, Escape and a click outside always
\* leave it closed.
C22_MenuStateAgrees ==
    /\ [](/\ menu.isOpen <=> menu.ariaExpanded = "true"
          /\ menu.isOpen <=> menu.overflow = "hidden"
          /\ menu.last \in {"navLink", "Escape", "outside"} => ~menu.isOpen)
    /\ [][ (menu' # menu /\ menu'.last = "burger") => (menu'.isOpen <=> ~menu.isOpen)
       ]_vars

\* The menu opened by the burger and closed again by it, while a toast is
\* up: closed, unlocked, and aria-expanded written.
C22_Witness ==
    /\ menu = [isOpen |-> FALSE, ariaExpanded |-> "false", overflow |-> "",
               last |-> "burger"]
    /\ toast.attached # {}

\* The toast shown last.
Newest == toast.shown

TimerFires == Len(toast.timers') < Len(toast.timers)

\* C23: at most one toast is attached; a toast shown while another is
\* displayed replaces it; and the auto-hide timer of a replaced toast never
\* marks or removes the newer toast, which stays attached and unmarked for
\* as long as its own timer has time to run.
C23_OneToast ==
    /\ [](/\ Cardinality(toast.attached) <= 1
          /\ toast.attached \subseteq {Newest}
          /\ \A i \in 1 .. Len(toast.timers) :
                (toast.timers[i].id = Newest /\ toast.timers[i].left > 0)
                    => (Newest \in toast.attached /\ Newest \notin toast.out))
    /\ [][ /\ toast'.shown > toast.shown => toast'.attached = {toast'.shown}
           /\ (TimerFires /\ Head(toast.timers).id # Newest) =>
                 /\ toast'.attached = toast.attached
                 /\ (Newest \in toast'.out) <=> (Newest \in toast.out)
       ]_vars

\* The timer of a replaced toast has fired while the toast that replaced it
\* is still up and unmarked.
C23_Witness ==
    /\ toast.shown = 2
    /\ 1 \in toast.out
    /\ toast.attached = {2}
    /\ 2 \notin toast.out
    /\ Len(toast.timers) = 1

(***************************************************************************)
(* The hero parallax (script.js:735-762)                                   *)
(***************************************************************************)
\* The pointer's position over the hero, cx and cy of script.js:744-745
\* doubled: -1, 0 and 1 stand for -0.5, 0 and 0.5.
Pointer == {-1, 0, 1}

\* The delay of the timer that clears the transition, in milliseconds
\* (script.js:760)
ClearDelay == 800

MaxLeaves == 3

\* The offset translate(cx * depth, cy * depth) of bubble i, counted from 0,
\* with depth = (i + 1) * 10 (script.js:748-749); "" is no offset.
offset(h, i) ==
    IF h.moved THEN <<(h.cx * (i + 1) * 10) \div 2, (h.cy * (i + 1) * 10) \div 2>>
    ELSE <<0, 0>>

\* The mousemove listener (script.js:742-751): it writes the transform of
\* every bubble and nothing else.
mousemove(cx, cy) ==
    /\ hero' = [hero EXCEPT !.cx = cx, !.cy = cy, !.moved = TRUE]
    /\ UNCHANGED <<menu, toast>>
    /\ UNCHANGED notPointerVars

\* The mouseleave listener (script.js:753-761): transform reset, transition
\* set, and a timer started whose handle is not kept.
mouseleave ==
    /\ hero.leaves < MaxLeaves
    /\ hero' = [hero EXCEPT !.cx = 0, !.cy = 0, !.moved = FALSE,
                            !.transition = TRUE,
                            !.timers = Append(@, [left |-> Ticks(ClearDelay)]),
                            !.leaves = @ + 1]
    /\ UNCHANGED <<menu, toast>>
    /\ UNCHANGED notPointerVars

\* Time passes: TickMs milliseconds, when no clear timer is due.
HeroTick ==
    /\ hero.timers # <<>>
    /\ \A i \in 1 .. Len(hero.timers) : hero.timers[i].left > 0
    /\ hero' = [hero EXCEPT
                   !.timers = [i \in 1 .. Len(@) |-> [@[i] EXCEPT !.left = @ - 1]]]
    /\ UNCHANGED <<menu, toast>>
    /\ UNCHANGED notPointerVars

\* The timer callback (script.js:758-760) of the earliest timer, once due.
clearTransition ==
    /\ hero.timers # <<>>
    /\ Head(hero.timers).left = 0
    /\ hero' = [hero EXCEPT !.timers = Tail(@), !.transition = FALSE]
    /\ UNCHANGED <<menu, toast>>
    /\ UNCHANGED notPointerVars

\* After initHeroParallax on a page with .hero and bubbles, motion allowed.
HeroInit ==
    /\ StatIdle /\ TouchIdle /\ ScrollIdle /\ MenuIdle /\ ToastIdle
    /\ ValidatorIdle
    /\ FormIdle
    /\ PageIdle
    /\ HeroIdle

NextHero ==
    \/ \E cx \in Pointer, cy \in Pointer : mousemove(cx, cy)
    \/ mouseleave
    \/ HeroTick
    \/ clearTransition

SpecHero == HeroInit /\ [][NextHero]_vars

\* C25: every pointer leave resets the bubble offsets to zero with the
\* return transition set, and the transition stays set for the whole 0.8 s
\* that follow that leave: while a leave's clear timer has time to run, the
\* transition is set.
C25_TransitionLasts ==
    /\ hero.leaves > 0 /\ ~hero.moved => offset(hero, 0) = <<0, 0>> /\ offset(hero, 1) = <<0, 0>>
    /\ \A i \in 1 .. Len(hero.timers) :
          hero.timers[i].left > 0 => hero.transition

====
